---- MODULE Spec2Model ----
(***************************************************************************)
(* Model of generate_digest.py: the headline aggregation (feed fetch with  *)
(* scrape fallback), the identifier-tagged prompt, the model call, the     *)
(* citation reconciliation and the exit status of the script.              *)
(*                                                                         *)
(* A Python str is a sequence of one-character strings, so that strip,     *)
(* lower, startswith, the substring test and the two regular expressions   *)
(* are computed character by character as the code computes them.          *)
(*                                                                         *)
(* A run starts with OPENROUTER_API_KEY set (without it the script exits   *)
(* with status 1 before anything is fetched).  What the network returns,   *)
(* the feeds, the pages and the reply of the model, is fixed when the run  *)
(* starts and read when the code reads it.                                 *)
(***************************************************************************)
EXTENDS Integers, Sequences, FiniteSets, TLC

VARIABLES
    feedDocs,        \* what feedparser.parse yields for each feed of the catalog
    pages,           \* what requests.get yields for each fallback page
    reply,           \* what client.chat.completions.create yields
    pc,              \* position of the script
    rss,             \* get_rss_headlines: all_articles
    scraped,         \* scrape_tech_headlines_fallback: all_articles
    merged,          \* fetch_current_tech_news: articles
    by_source,       \* fetch_current_tech_news: by_source, in insertion order
    current_news,    \* generate_tech_news_digest: current_news (None or str)
    articles,        \* generate_tech_news_digest: articles
    articles_by_id,  \* generate_tech_news_digest: articles_by_id
    modelCalls,      \* number of calls of client.chat.completions.create
    summary,         \* generate_tech_news_digest: summary (None before the call)
    clean_summary,   \* generate_tech_news_digest: clean_summary (None while not set)
    appendix,        \* ids of the entries written to sources_section, in order
    digest,          \* __main__: digest (None before generate returns)
    written,         \* content of the output file (None while not written)
    exitCode,        \* exit status of the process (None while running)
    log              \* what the script printed, in order

vars == <<feedDocs, pages, reply, pc, rss, scraped, merged, by_source, current_news,
          articles, articles_by_id, modelCalls, summary, clean_summary, appendix,
          digest, written, exitCode, log>>

\* None of Python, comparable with a str
None == <<"None">>

(***************************************************************************)
(* str operations                                                          *)
(***************************************************************************)

\* the whitespace of str.strip() and of \s that the sampled texts hold
Whitespace == {" ", "\n", "\t"}

Digits == {"0", "1", "2", "3", "4", "5", "6", "7", "8", "9"}

DigitVal(c) ==
    CASE c = "0" -> 0 [] c = "1" -> 1 [] c = "2" -> 2 [] c = "3" -> 3 [] c = "4" -> 4
      [] c = "5" -> 5 [] c = "6" -> 6 [] c = "7" -> 7 [] c = "8" -> 8 [] c = "9" -> 9

DigitChar(d) ==
    CASE d = 0 -> "0" [] d = 1 -> "1" [] d = 2 -> "2" [] d = 3 -> "3" [] d = 4 -> "4"
      [] d = 5 -> "5" [] d = 6 -> "6" [] d = 7 -> "7" [] d = 8 -> "8" [] d = 9 -> "9"

\* str.lower() on one character
LowerChar(c) ==
    CASE c = "A" -> "a" [] c = "B" -> "b" [] c = "C" -> "c" [] c = "D" -> "d"
      [] c = "E" -> "e" [] c = "F" -> "f" [] c = "G" -> "g" [] c = "H" -> "h"
      [] c = "I" -> "i" [] c = "J" -> "j" [] c = "K" -> "k" [] c = "L" -> "l"
      [] c = "M" -> "m" [] c = "N" -> "n" [] c = "O" -> "o" [] c = "P" -> "p"
      [] c = "Q" -> "q" [] c = "R" -> "r" [] c = "S" -> "s" [] c = "T" -> "t"
      [] c = "U" -> "u" [] c = "V" -> "v" [] c = "W" -> "w" [] c = "X" -> "x"
      [] c = "Y" -> "y" [] c = "Z" -> "z" [] OTHER -> c

\* str.lower()
Lower(s) == [i \in 1..Len(s) |-> LowerChar(s[i])]

\* str.startswith(p), and the match of the literal p at position i of s
MatchAt(s, i, p) ==
    /\ i + Len(p) - 1 <= Len(s)
    /\ \A k \in 1..Len(p) : s[i + k - 1] = p[k]

StartsWith(s, p) == MatchAt(s, 1, p)

EndsWith(s, p) == Len(p) <= Len(s) /\ MatchAt(s, Len(s) - Len(p) + 1, p)

\* the test  p in s
Contains(s, p) == \E i \in 1..(Len(s) - Len(p) + 1) : MatchAt(s, i, p)

\* number of whitespace characters of s from position i on, up to the first other one
RECURSIVE LeadingWhitespace(_, _)
LeadingWhitespace(s, i) ==
    IF i <= Len(s) /\ s[i] \in Whitespace THEN 1 + LeadingWhitespace(s, i + 1) ELSE 0

\* number of whitespace characters of s from position i back
RECURSIVE TrailingWhitespace(_, _)
TrailingWhitespace(s, i) ==
    IF i >= 1 /\ s[i] \in Whitespace THEN 1 + TrailingWhitespace(s, i - 1) ELSE 0

\* str.strip(): leading and trailing whitespace removed
Strip(s) ==
    LET lead == LeadingWhitespace(s, 1)
    IN  IF lead = Len(s) THEN <<>>
        ELSE SubSeq(s, lead + 1, Len(s) - TrailingWhitespace(s, Len(s)))

\* str.rstrip('/')
RECURSIVE RStripSlash(_)
RStripSlash(s) ==
    IF s # <<>> /\ s[Len(s)] = "/" THEN RStripSlash(SubSeq(s, 1, Len(s) - 1)) ELSE s

\* str(n) for n >= 0
RECURSIVE IntToStr(_)
IntToStr(n) ==
    IF n < 10 THEN <<DigitChar(n)>> ELSE IntToStr(n \div 10) \o <<DigitChar(n % 10)>>

\* int(s) for a run of digits s
RECURSIVE StrToInt(_)
StrToInt(s) ==
    IF s = <<>> THEN 0
    ELSE 10 * StrToInt(SubSeq(s, 1, Len(s) - 1)) + DigitVal(s[Len(s)])

\* c * n
Repeat(c, n) == [i \in 1..n |-> c]

\* sep.join(lines)
RECURSIVE Join(_, _)
Join(lines, sep) ==
    IF lines = <<>> THEN <<>>
    ELSE IF Len(lines) = 1 THEN lines[1]
    ELSE lines[1] \o sep \o Join(Tail(lines), sep)

(***************************************************************************)
(* The literals of the script                                              *)
(***************************************************************************)

FETCH_FAILED_MSG ==
    <<"U","n","a","b","l","e"," ","t","o"," ","f","e","t","c","h"," ","c","u","r","r","e","n",
      "t"," ","t","e","c","h"," ","n","e","w","s"," ","f","r","o","m"," ","a","v","a","i","l",
      "a","b","l","e"," ","s","o","u","r","c","e","s","."," ","P","l","e","a","s","e"," ","c",
      "h","e","c","k"," ","y","o","u","r"," ","i","n","t","e","r","n","e","t"," ","c","o","n",
      "n","e","c","t","i","o","n"," ","o","r"," ","t","r","y"," ","a","g","a","i","n"," ","l",
      "a","t","e","r",".">>

EMPTY_SUMMARY_MSG ==
    <<"U","n","a","b","l","e"," ","t","o"," ","g","e","n","e","r","a","t","e"," ","a"," ","m",
      "e","a","n","i","n","g","f","u","l"," ","s","u","m","m","a","r","y"," ","f","r","o","m",
      " ","t","h","e"," ","a","v","a","i","l","a","b","l","e"," ","n","e","w","s"," ","s","o",
      "u","r","c","e","s",".">>

CONNECTION_ERROR_MSG ==
    <<"A","n"," ","e","r","r","o","r"," ","o","c","c","u","r","r","e","d"," ","w","h","i","l",
      "e"," ","c","o","n","n","e","c","t","i","n","g"," ","t","o"," ","t","h","e"," ","A","P",
      "I"," ","f","o","r"," ","s","u","m","m","a","r","y"," ","g","e","n","e","r","a","t","i",
      "o","n",".">>

API_ERROR_MSG ==
    <<"A","n"," ","A","P","I","-","r","e","l","a","t","e","d"," ","e","r","r","o","r"," ","o",
      "c","c","u","r","r","e","d"," ","w","h","i","l","e"," ","g","e","n","e","r","a","t","i",
      "n","g"," ","t","h","e"," ","s","u","m","m","a","r","y",".">>

UNEXPECTED_ERROR_MSG ==
    <<"A","n"," ","u","n","e","x","p","e","c","t","e","d"," ","e","r","r","o","r"," ","o","c",
      "c","u","r","r","e","d"," ","w","h","i","l","e"," ","g","e","n","e","r","a","t","i","n",
      "g"," ","t","h","e"," ","s","u","m","m","a","r","y",".">>

NO_REFERENCES_NOTE ==
    <<"\n","\n","N","o","t","e",":"," ","N","o"," ","s","p","e","c","i","f","i","c"," ","a","r",
      "t","i","c","l","e","s"," ","w","e","r","e"," ","d","i","r","e","c","t","l","y"," ","r",
      "e","f","e","r","e","n","c","e","d"," ","i","n"," ","t","h","i","s"," ","s","u","m","m",
      "a","r","y",".">>

ID_OPEN ==
    <<"[","I","D",":">>

SOURCE_LABEL ==
    <<" "," "," "," ","S","o","u","r","c","e",":"," ">>

LINK_LABEL ==
    <<" "," "," "," ","L","i","n","k",":"," ">>

RECENT ==
    <<"R","e","c","e","n","t">>

DIGEST_TITLE ==
    <<"T","e","c","h"," ","N","e","w","s"," ","D","i","g","e","s","t"," ","-"," ">>

IND_UNABLE_TO ==
    <<"u","n","a","b","l","e"," ","t","o">>

IND_ERROR_OCCURRED ==
    <<"e","r","r","o","r"," ","o","c","c","u","r","r","e","d">>

IND_CHECK_INTERNET ==
    <<"c","h","e","c","k"," ","y","o","u","r"," ","i","n","t","e","r","n","e","t">>

IND_TRY_AGAIN ==
    <<"t","r","y"," ","a","g","a","i","n"," ","l","a","t","e","r">>

AD_PREFIX ==
    <<"a","d","v","e","r","t","i","s","e","m","e","n","t">>

SPONSORED_PREFIX ==
    <<"s","p","o","n","s","o","r","e","d">>

HTTP_PREFIX ==
    <<"h","t","t","p">>

NAME_VERGE ==
    <<"T","h","e"," ","V","e","r","g","e">>

NAME_TECHCRUNCH ==
    <<"T","e","c","h","C","r","u","n","c","h">>

NAME_CNET ==
    <<"C","N","E","T">>

NAME_ARS ==
    <<"A","r","s"," ","T","e","c","h","n","i","c","a">>

NAME_ENGADGET ==
    <<"E","n","g","a","d","g","e","t">>

URL_VERGE ==
    <<"h","t","t","p","s",":","/","/","w","w","w",".","t","h","e","v","e","r","g","e",".","c",
      "o","m","/","t","e","c","h">>

URL_TECHCRUNCH ==
    <<"h","t","t","p","s",":","/","/","t","e","c","h","c","r","u","n","c","h",".","c","o","m",
      "/">>

URL_CNET ==
    <<"h","t","t","p","s",":","/","/","w","w","w",".","c","n","e","t",".","c","o","m","/","t",
      "e","c","h","/">>

\* "="*30
DIVIDER_WIDTH == 30

\* the four first lines of sources_section
SOURCES_HEADER ==
    <<"\n", "\n">> \o Repeat("=", DIVIDER_WIDTH) \o <<"\n">>
      \o <<"S", "O", "U", "R", "C", "E", "S", "\n">>
      \o Repeat("=", DIVIDER_WIDTH) \o <<"\n", "\n">>

\* feeds of get_rss_headlines: the names, in order (the addresses are only fetched)
feeds == <<NAME_VERGE, NAME_TECHCRUNCH, NAME_CNET, NAME_ARS, NAME_ENGADGET>>

\* tech_sources of scrape_tech_headlines_fallback
tech_sources ==
    << [name |-> NAME_VERGE, url |-> URL_VERGE],
       [name |-> NAME_TECHCRUNCH, url |-> URL_TECHCRUNCH],
       [name |-> NAME_CNET, url |-> URL_CNET] >>

\* article_selectors: six selectors, tried in order
NUM_SELECTORS == 6

\* feed.entries[:5]
FEED_TOP == 5

\* len(found_articles) >= 5
SCRAPE_LIMIT == 5

\* 20 <= len(title) <= 200
MIN_TITLE_LEN == 20

MAX_TITLE_LEN == 200

\* len(articles) < 5: nothing to summarise
MIN_ARTICLES == 5

\* RSS_ENOUGH with a fault: the fallback is tried only below the minimum
RssEnoughIsMinimum == MIN_ARTICLES

\* len(articles) < 10: the feeds did not yield enough
RSS_ENOUGH == 10

\* error_indicators with a fault: "error occurred" is missing
IndicatorsWithoutErrorOccurred == {IND_UNABLE_TO, IND_CHECK_INTERNET, IND_TRY_AGAIN}

\* error_indicators of __main__
error_indicators == {IND_UNABLE_TO, IND_ERROR_OCCURRED, IND_CHECK_INTERNET, IND_TRY_AGAIN}

(***************************************************************************)
(* The two regular expressions                                             *)
(***************************************************************************)

\* number of digits of s from position i on (the greedy \d+)
RECURSIVE DigitRun(_, _)
DigitRun(s, i) ==
    IF i <= Len(s) /\ s[i] \in Digits THEN 1 + DigitRun(s, i + 1) ELSE 0

\* length of the match of \[ID:(\d+)\] at position i of s, 0 when there is none
MarkerLenAt(s, i) ==
    IF ~MatchAt(s, i, ID_OPEN) THEN 0
    ELSE LET n == DigitRun(s, i + Len(ID_OPEN))
             close == i + Len(ID_OPEN) + n
         IN  IF n >= 1 /\ close <= Len(s) /\ s[close] = "]"
             THEN Len(ID_OPEN) + n + 1
             ELSE 0

\* re.findall(r'\[ID:(\d+)\]', s) from position i: the groups of the leftmost,
\* non-overlapping matches
RECURSIVE FindAllFrom(_, _)
FindAllFrom(s, i) ==
    IF i > Len(s) THEN <<>>
    ELSE LET m == MarkerLenAt(s, i)
         IN  IF m = 0 THEN FindAllFrom(s, i + 1)
             ELSE <<SubSeq(s, i + Len(ID_OPEN), i + m - 2)>> \o FindAllFrom(s, i + m)

\* extract_referenced_ids
extract_referenced_ids(summary_text) ==
    LET matches == FindAllFrom(summary_text, 1)
    IN  [k \in 1..Len(matches) |-> StrToInt(matches[k])]

\* re.sub(r'\[ID:\d+\]', '', s) from position i: one pass, left to right
RECURSIVE RemoveMarkersFrom(_, _)
RemoveMarkersFrom(s, i) ==
    IF i > Len(s) THEN <<>>
    ELSE LET m == MarkerLenAt(s, i)
         IN  IF m = 0 THEN <<s[i]>> \o RemoveMarkersFrom(s, i + 1)
             ELSE RemoveMarkersFrom(s, i + m)

RemoveMarkers(s) == RemoveMarkersFrom(s, 1)

\* re.sub(r'\s+', ' ', s): every run of whitespace becomes one space
RECURSIVE CollapseFrom(_, _)
CollapseFrom(s, i) ==
    IF i > Len(s) THEN <<>>
    ELSE IF s[i] \in Whitespace
         THEN IF i > 1 /\ s[i - 1] \in Whitespace
              THEN CollapseFrom(s, i + 1)
              ELSE <<" ">> \o CollapseFrom(s, i + 1)
         ELSE <<s[i]>> \o CollapseFrom(s, i + 1)

CollapseWhitespace(s) == CollapseFrom(s, 1)

(***************************************************************************)
(* get_rss_headlines                                                       *)
(***************************************************************************)

\* the article built from one feed entry; its id is len(all_articles)
FeedArticle(entry, source_name, all_articles) ==
    [title     |-> Strip(entry.title),
     url       |-> IF entry.link = None THEN <<>> ELSE entry.link,
     source    |-> source_name,
     published |-> IF entry.published = None THEN RECENT ELSE entry.published,
     id        |-> Len(all_articles)]

\* feed.entries[:5]
TopEntries(entries) ==
    SubSeq(entries, 1, IF Len(entries) < FEED_TOP THEN Len(entries) ELSE FEED_TOP)

\* the loop over feed.entries[:5] from entry k on: entry.title of an entry without
\* a title raises, and the articles appended before it stay in all_articles
RECURSIVE TakeEntries(_, _, _, _)
TakeEntries(all_articles, source_name, entries, k) ==
    IF k > Len(entries) THEN [arts |-> all_articles, raised |-> FALSE]
    ELSE IF entries[k].title = None THEN [arts |-> all_articles, raised |-> TRUE]
    ELSE TakeEntries(Append(all_articles, FeedArticle(entries[k], source_name, all_articles)),
                     source_name, entries, k + 1)

\* the body of the try of one feed
FeedStep(all_articles, source_name, doc) ==
    IF doc.raises THEN [arts |-> all_articles, raised |-> TRUE]
    ELSE TakeEntries(all_articles, source_name, TopEntries(doc.entries), 1)

\* RssLoop with a fault: a feed that raises ends the loop
RECURSIVE RssLoopAborts(_, _, _, _)
RssLoopAborts(all_articles, printed, docs, i) ==
    IF i > Len(feeds) THEN [arts |-> all_articles, printed |-> printed]
    ELSE LET r == FeedStep(all_articles, feeds[i], docs[i])
             announced == Append(printed, [ev |-> "fetching", src |-> feeds[i]])
         IN  IF r.raised
             THEN [arts    |-> r.arts,
                   printed |-> Append(announced, [ev |-> "fetch_error", src |-> feeds[i]])]
             ELSE RssLoopAborts(r.arts, announced, docs, i + 1)

\* the loop of get_rss_headlines from feed i on: each feed is announced, fetched
\* and its entries appended; a feed that raises is reported in the except clause
\* and the loop continues with the next feed
RECURSIVE RssLoop(_, _, _, _)
RssLoop(all_articles, printed, docs, i) ==
    IF i > Len(feeds) THEN [arts |-> all_articles, printed |-> printed]
    ELSE LET r == FeedStep(all_articles, feeds[i], docs[i])
             announced == Append(printed, [ev |-> "fetching", src |-> feeds[i]])
         IN  RssLoop(r.arts,
                     IF r.raised
                     THEN Append(announced, [ev |-> "fetch_error", src |-> feeds[i]])
                     ELSE announced,
                     docs, i + 1)

get_rss_headlines(docs) == RssLoop(<<>>, <<>>, docs, 1)

(***************************************************************************)
(* scrape_tech_headlines_fallback                                          *)
(***************************************************************************)

\* AcceptHeadline with a fault: the prefixes are compared without .lower()
AcceptHeadlineCaseSensitive(title) ==
    /\ MIN_TITLE_LEN <= Len(title)
    /\ Len(title) <= MAX_TITLE_LEN
    /\ ~StartsWith(title, AD_PREFIX)
    /\ ~StartsWith(title, SPONSORED_PREFIX)

\* 20 <= len(title) <= 200 and not title.lower().startswith(('advertisement', 'sponsored'))
AcceptHeadline(title) ==
    /\ MIN_TITLE_LEN <= Len(title)
    /\ Len(title) <= MAX_TITLE_LEN
    /\ ~StartsWith(Lower(title), AD_PREFIX)
    /\ ~StartsWith(Lower(title), SPONSORED_PREFIX)

\* the url of an element: a relative one is made absolute
AbsoluteUrl(href, source_url) ==
    IF StartsWith(href, <<"/">>) THEN RStripSlash(source_url) \o href ELSE href

\* the loop over the elements of one selector, from element k on; it stops when
\* found_articles holds SCRAPE_LIMIT articles
RECURSIVE ScanElements(_, _, _, _, _)
ScanElements(found_articles, all_articles, source, elements, k) ==
    IF k > Len(elements) THEN found_articles
    ELSE LET title == Strip(elements[k].text)
             href == elements[k].href
             skipped == ~StartsWith(href, <<"/">>) /\ ~StartsWith(href, HTTP_PREFIX)
             article == [title     |-> title,
                         url       |-> AbsoluteUrl(href, source.url),
                         source    |-> source.name,
                         published |-> RECENT,
                         id        |-> Len(all_articles) + Len(found_articles)]
             found == IF ~skipped /\ AcceptHeadline(title)
                      THEN Append(found_articles, article)
                      ELSE found_articles
         IN  IF Len(found) >= SCRAPE_LIMIT THEN found
             ELSE ScanElements(found, all_articles, source, elements, k + 1)

\* the loop over article_selectors, from selector sel on
RECURSIVE ScanSelectors(_, _, _, _, _)
ScanSelectors(found_articles, all_articles, source, page, sel) ==
    IF sel > NUM_SELECTORS THEN found_articles
    ELSE LET found == ScanElements(found_articles, all_articles, source,
                                   page.selected[sel], 1)
         IN  IF Len(found) >= SCRAPE_LIMIT THEN found
             ELSE ScanSelectors(found, all_articles, source, page, sel + 1)

\* the body of the try of one page: with status 200 the headlines found are
\* appended to all_articles, any other status leaves it as it is
PageStep(all_articles, source, page) ==
    IF page.status = 200
    THEN all_articles \o ScanSelectors(<<>>, all_articles, source, page, 1)
    ELSE all_articles

\* the loop of scrape_tech_headlines_fallback from page i on: a page that raises
\* loses its found_articles, is reported in the except clause, and the loop
\* continues with the next page
RECURSIVE ScrapeLoop(_, _, _, _)
ScrapeLoop(all_articles, printed, webpages, i) ==
    IF i > Len(tech_sources) THEN [arts |-> all_articles, printed |-> printed]
    ELSE LET announced == Append(printed, [ev |-> "scraping", src |-> tech_sources[i].name])
         IN  IF webpages[i].raises
             THEN ScrapeLoop(all_articles,
                             Append(announced,
                                    [ev |-> "scrape_error", src |-> tech_sources[i].name]),
                             webpages, i + 1)
             ELSE ScrapeLoop(PageStep(all_articles, tech_sources[i], webpages[i]),
                             announced, webpages, i + 1)

scrape_tech_headlines_fallback(webpages) == ScrapeLoop(<<>>, <<>>, webpages, 1)


(***************************************************************************)
(* fetch_current_tech_news                                                 *)
(***************************************************************************)

\* by_source after one more article: a dict keeps the order of first insertion
AddBySource(groups, article) ==
    IF \E g \in 1..Len(groups) : groups[g].source = article.source
    THEN [g \in 1..Len(groups) |->
             IF groups[g].source = article.source
             THEN [groups[g] EXCEPT !.arts = Append(@, article)]
             ELSE groups[g]]
    ELSE Append(groups, [source |-> article.source, arts |-> <<article>>])

\* the loop that fills by_source, from article k on
RECURSIVE GroupBySource(_, _, _)
GroupBySource(groups, arts, k) ==
    IF k > Len(arts) THEN groups
    ELSE GroupBySource(AddBySource(groups, arts[k]), arts, k + 1)

\* f"- [ID:{article['id']}] {article['title']}"
ArticleLine(article) ==
    <<"-", " ">> \o ID_OPEN \o IntToStr(article.id) \o <<"]", " ">> \o article.title

\* the lines of one source: its heading, its articles, a blank line
GroupLines(group) ==
    << <<"*", "*">> \o group.source \o <<":", "*", "*">> >>
      \o [k \in 1..Len(group.arts) |-> ArticleLine(group.arts[k])]
      \o << <<>> >>

\* formatted_headlines for the groups from g on
RECURSIVE FormattedHeadlines(_, _)
FormattedHeadlines(groups, g) ==
    IF g > Len(groups) THEN <<>>
    ELSE GroupLines(groups[g]) \o FormattedHeadlines(groups, g + 1)

\* {article['id']: article for article in articles}: a later article replaces an
\* earlier one with the same id
ArticlesById(arts) ==
    [i \in {arts[k].id : k \in 1..Len(arts)} |->
        arts[CHOOSE k \in 1..Len(arts) :
                /\ arts[k].id = i
                /\ \A j \in (k + 1)..Len(arts) : arts[j].id # i]]

\* not x, for x a str, a list or None
Falsy(x) == x = None \/ x = <<>>

\* articles = get_rss_headlines()
GetRssHeadlines ==
    /\ pc = "start"
    /\ LET r == get_rss_headlines(feedDocs)
       IN  /\ rss' = r.arts
           /\ merged' = r.arts
           /\ log' = log \o r.printed
    /\ pc' = "rss_done"
    /\ UNCHANGED <<feedDocs, pages, reply, scraped, by_source, current_news, articles,
                   articles_by_id, modelCalls, summary, clean_summary, appendix,
                   digest, written, exitCode>>

\* len(articles) < 10: the fallback is run and its articles are appended
ScrapeFallback ==
    /\ pc = "rss_done"
    /\ Len(merged) < RSS_ENOUGH
    /\ LET r == scrape_tech_headlines_fallback(pages)
       IN  /\ scraped' = r.arts
           /\ merged' = merged \o r.arts
           /\ log' = log \o <<[ev |-> "trying_scraping", src |-> <<>>]>> \o r.printed
    /\ pc' = "fetched"
    /\ UNCHANGED <<feedDocs, pages, reply, rss, by_source, current_news, articles,
                   articles_by_id, modelCalls, summary, clean_summary, appendix,
                   digest, written, exitCode>>

\* len(articles) >= 10: the fallback is not run
SkipFallback ==
    /\ pc = "rss_done"
    /\ ~(Len(merged) < RSS_ENOUGH)
    /\ pc' = "fetched"
    /\ UNCHANGED <<feedDocs, pages, reply, rss, scraped, merged, by_source,
                   current_news, articles, articles_by_id, modelCalls, summary,
                   clean_summary, appendix, digest, written, exitCode, log>>

\* FetchResult with a fault: only an empty list is insufficient
FetchResultNoMinimum(arts) ==
    IF arts = <<>>
    THEN [news |-> None, arts |-> <<>>, groups |-> <<>>]
    ELSE LET groups == GroupBySource(<<>>, arts, 1)
         IN  [news   |-> Join(FormattedHeadlines(groups, 1), <<"\n">>),
              arts   |-> arts,
              groups |-> groups]

\* what fetch_current_tech_news returns for the merged list
FetchResult(arts) ==
    IF arts = <<>> \/ Len(arts) < MIN_ARTICLES
    THEN [news |-> None, arts |-> <<>>, groups |-> <<>>]
    ELSE LET groups == GroupBySource(<<>>, arts, 1)
         IN  [news   |-> Join(FormattedHeadlines(groups, 1), <<"\n">>),
              arts   |-> arts,
              groups |-> groups]

\* fetch_current_tech_news returns None, [] and generate_tech_news_digest returns
\* its message at once
InsufficientNews ==
    /\ pc = "fetched"
    /\ LET r == FetchResult(merged)
       IN  /\ Falsy(r.news) \/ Falsy(r.arts)
           /\ current_news' = r.news
           /\ articles' = r.arts
           /\ by_source' = r.groups
    /\ digest' = FETCH_FAILED_MSG
    /\ pc' = "main"
    /\ UNCHANGED <<feedDocs, pages, reply, rss, scraped, merged, articles_by_id,
                   modelCalls, summary, clean_summary, appendix, written, exitCode, log>>

\* fetch_current_tech_news returns the prompt text and the articles, and
\* generate_tech_news_digest builds articles_by_id
BuildPrompt ==
    /\ pc = "fetched"
    /\ LET r == FetchResult(merged)
       IN  /\ ~(Falsy(r.news) \/ Falsy(r.arts))
           /\ current_news' = r.news
           /\ articles' = r.arts
           /\ by_source' = r.groups
           /\ articles_by_id' = ArticlesById(r.arts)
    /\ pc' = "llm"
    /\ UNCHANGED <<feedDocs, pages, reply, rss, scraped, merged, modelCalls, summary,
                   clean_summary, appendix, digest, written, exitCode, log>>

(***************************************************************************)
(* generate_tech_news_digest: the model call and the sources section       *)
(***************************************************************************)

\* sorted(S) for a finite set of integers
RECURSIVE Sorted(_)
Sorted(S) ==
    IF S = {} THEN <<>>
    ELSE LET m == CHOOSE x \in S : \A y \in S : x <= y
         IN  <<m>> \o Sorted(S \ {m})

\* SourceIds with a fault: the loop runs over referenced_ids as extracted
SourceIdsAsExtracted(referenced_ids, by_id) ==
    SelectSeq(referenced_ids, LAMBDA i : i \in DOMAIN by_id)

\* the ids the loop over sorted(set(referenced_ids)) writes an entry for
SourceIds(referenced_ids, by_id) ==
    SelectSeq(Sorted({referenced_ids[k] : k \in 1..Len(referenced_ids)}),
              LAMBDA i : i \in DOMAIN by_id)

\* the lines of one entry of sources_section
SourceEntry(article_id, article) ==
    <<"[">> \o IntToStr(article_id) \o <<"]", " ">> \o article.title \o <<"\n">>
      \o SOURCE_LABEL \o article.source \o <<"\n">>
      \o (IF article.url # <<>> THEN LINK_LABEL \o article.url \o <<"\n">> ELSE <<>>)
      \o <<"\n">>

RECURSIVE SourceEntries(_, _, _)
SourceEntries(ids, by_id, k) ==
    IF k > Len(ids) THEN <<>>
    ELSE SourceEntry(ids[k], by_id[ids[k]]) \o SourceEntries(ids, by_id, k + 1)

\* clean_summary: the markers removed, the ends stripped, whitespace collapsed
CleanSummary(text) == CollapseWhitespace(Strip(RemoveMarkers(text)))

\* final_digest for a non-empty summary
FinalDigest(text, by_id) ==
    LET referenced_ids == extract_referenced_ids(text)
    IN  IF referenced_ids # <<>>
        THEN [clean |-> CleanSummary(text),
              ids   |-> SourceIds(referenced_ids, by_id),
              text  |-> CleanSummary(text) \o SOURCES_HEADER
                          \o SourceEntries(SourceIds(referenced_ids, by_id), by_id, 1)]
        ELSE [clean |-> None,
              ids   |-> <<>>,
              text  |-> text \o NO_REFERENCES_NOTE]

\* the call raises openai.APIConnectionError
ModelConnectionError ==
    /\ pc = "llm"
    /\ reply.kind = "APIConnectionError"
    /\ modelCalls' = modelCalls + 1
    /\ digest' = CONNECTION_ERROR_MSG
    /\ pc' = "main"
    /\ UNCHANGED <<feedDocs, pages, reply, rss, scraped, merged, by_source,
                   current_news, articles, articles_by_id, summary, clean_summary,
                   appendix, written, exitCode, log>>

\* the call raises another openai.APIError
ModelAPIError ==
    /\ pc = "llm"
    /\ reply.kind = "APIError"
    /\ modelCalls' = modelCalls + 1
    /\ digest' = API_ERROR_MSG
    /\ pc' = "main"
    /\ UNCHANGED <<feedDocs, pages, reply, rss, scraped, merged, by_source,
                   current_news, articles, articles_by_id, summary, clean_summary,
                   appendix, written, exitCode, log>>

\* the call raises any other exception, or the message has no content and
\* .strip() raises
ModelUnexpectedError ==
    /\ pc = "llm"
    /\ reply.kind = "Exception" \/ (reply.kind = "response" /\ reply.content = None)
    /\ modelCalls' = modelCalls + 1
    /\ digest' = UNEXPECTED_ERROR_MSG
    /\ pc' = "main"
    /\ UNCHANGED <<feedDocs, pages, reply, rss, scraped, merged, by_source,
                   current_news, articles, articles_by_id, summary, clean_summary,
                   appendix, written, exitCode, log>>

\* the call returns a message whose stripped content is empty
EmptySummary ==
    /\ pc = "llm"
    /\ reply.kind = "response" /\ reply.content # None
    /\ Strip(reply.content) = <<>>
    /\ modelCalls' = modelCalls + 1
    /\ summary' = Strip(reply.content)
    /\ digest' = EMPTY_SUMMARY_MSG
    /\ pc' = "main"
    /\ UNCHANGED <<feedDocs, pages, reply, rss, scraped, merged, by_source,
                   current_news, articles, articles_by_id, clean_summary, appendix,
                   written, exitCode, log>>

\* the call returns a summary: the cited ids are extracted, the sources section
\* or the note is appended
Reconcile ==
    /\ pc = "llm"
    /\ reply.kind = "response" /\ reply.content # None
    /\ Strip(reply.content) # <<>>
    /\ modelCalls' = modelCalls + 1
    /\ summary' = Strip(reply.content)
    /\ LET d == FinalDigest(Strip(reply.content), articles_by_id)
       IN  /\ clean_summary' = d.clean
           /\ appendix' = d.ids
           /\ digest' = d.text
    /\ pc' = "main"
    /\ UNCHANGED <<feedDocs, pages, reply, rss, scraped, merged, by_source,
                   current_news, articles, articles_by_id, written, exitCode, log>>

(***************************************************************************)
(* __main__                                                                *)
(***************************************************************************)

\* datetime.now() formatted for the heading: the clock is read once
LOG_TIMESTAMP ==
    <<"2", "0", "2", "5", "-", "0", "9", "-", "1", "0", " ", "0", "9", ":", "3", "0", " ",
      "A", "M">>

\* "="*50
HEADING_WIDTH == 50

\* output_content
OutputContent(text) ==
    DIGEST_TITLE \o LOG_TIMESTAMP \o <<"\n">> \o Repeat("=", HEADING_WIDTH)
      \o <<"\n", "\n">> \o text \o <<"\n">>

\* any(indicator in digest.lower() for indicator in error_indicators)
HasErrorIndicator(text) == \E ind \in error_indicators : Contains(Lower(text), ind)

\* os.makedirs succeeds
MakeDirs ==
    /\ pc = "main"
    /\ pc' = "write"
    /\ UNCHANGED <<feedDocs, pages, reply, rss, scraped, merged, by_source,
                   current_news, articles, articles_by_id, modelCalls, summary,
                   clean_summary, appendix, digest, written, exitCode, log>>

\* os.makedirs raises IOError: sys.exit(1)
MakeDirsFails ==
    /\ pc = "main"
    /\ log' = Append(log, [ev |-> "makedirs_error", src |-> <<>>])
    /\ exitCode' = <<1>>
    /\ pc' = "exited"
    /\ UNCHANGED <<feedDocs, pages, reply, rss, scraped, merged, by_source,
                   current_news, articles, articles_by_id, modelCalls, summary,
                   clean_summary, appendix, digest, written>>

\* the digest is printed and written to the file
WriteDigest ==
    /\ pc = "write"
    /\ written' = OutputContent(digest)
    /\ pc' = "check"
    /\ UNCHANGED <<feedDocs, pages, reply, rss, scraped, merged, by_source,
                   current_news, articles, articles_by_id, modelCalls, summary,
                   clean_summary, appendix, digest, exitCode, log>>

\* opening or writing the file raises IOError: sys.exit(1)
WriteFails ==
    /\ pc = "write"
    /\ log' = Append(log, [ev |-> "write_error", src |-> <<>>])
    /\ exitCode' = <<1>>
    /\ pc' = "exited"
    /\ UNCHANGED <<feedDocs, pages, reply, rss, scraped, merged, by_source,
                   current_news, articles, articles_by_id, modelCalls, summary,
                   clean_summary, appendix, digest, written>>

\* an error indicator in the digest: sys.exit(1)
ExitDegraded ==
    /\ pc = "check"
    /\ HasErrorIndicator(digest)
    /\ exitCode' = <<1>>
    /\ pc' = "exited"
    /\ UNCHANGED <<feedDocs, pages, reply, rss, scraped, merged, by_source,
                   current_news, articles, articles_by_id, modelCalls, summary,
                   clean_summary, appendix, digest, written, log>>

\* no error indicator: the script ends with status 0
ExitOk ==
    /\ pc = "check"
    /\ ~HasErrorIndicator(digest)
    /\ exitCode' = <<0>>
    /\ pc' = "exited"
    /\ UNCHANGED <<feedDocs, pages, reply, rss, scraped, merged, by_source,
                   current_news, articles, articles_by_id, modelCalls, summary,
                   clean_summary, appendix, digest, written, log>>

(***************************************************************************)
(* The inputs of a run: the feeds, the pages and the reply of the model    *)
(***************************************************************************)

\* most entries a feed document holds (more than FEED_TOP)
MaxEntries == 6

\* most headline elements a page holds (more than SCRAPE_LIMIT)
MaxElements == 7

\* most pieces a sampled summary is made of
MaxPieces == 3

\* entry j of feed i: the title comes with surrounding whitespace, an entry with
\* an even j has no link, the first entry has no published date
Entry(i, j) ==
    [title     |-> <<" ", "F", DigitChar(i), ".", DigitChar(j), "\n">>,
     link      |-> IF j % 2 = 1
                   THEN HTTP_PREFIX \o <<":", "/", "/", "f", DigitChar(i), "/", DigitChar(j)>>
                   ELSE None,
     published |-> IF j = 1 THEN None ELSE <<"M", "o", "n">>]

\* feedparser.parse raises
DocRaises == [raises |-> TRUE, entries |-> <<>>]

\* a feed document with n entries
Entries(i, n) == [raises |-> FALSE, entries |-> [j \in 1..n |-> Entry(i, j)]]

\* a feed document whose third entry has no title
Untitled(i) ==
    [raises  |-> FALSE,
     entries |-> [j \in 1..MaxEntries |->
                     IF j = 3 THEN [Entry(i, j) EXCEPT !.title = None] ELSE Entry(i, j)]]

FeedChoices(i) ==
    {DocRaises, Entries(i, 3)}
      \cup (IF i <= 2 THEN {Untitled(i)} ELSE {})
      \cup (IF i = 1 THEN {Entries(i, 0), Entries(i, MaxEntries)} ELSE {})

\* one document for each of the five feeds
FeedInputs ==
    {<<d1, d2, d3, d4, d5>> : d1 \in FeedChoices(1), d2 \in FeedChoices(2),
                              d3 \in FeedChoices(3), d4 \in FeedChoices(4),
                              d5 \in FeedChoices(5)}

\* a headline of n characters that starts with prefix
Headline(prefix, n) == prefix \o Repeat("x", n - Len(prefix))

\* element k of page j that passes the filter: a headline of MIN_TITLE_LEN
\* characters in whitespace, with a relative link when k is odd
Good(j, k) ==
    [text |-> <<"\n", " ">> \o Headline(<<"H", DigitChar(j), ".", DigitChar(k)>>, MIN_TITLE_LEN)
                \o <<" ">>,
     href |-> IF k % 2 = 1
              THEN <<"/", "a", DigitChar(k)>>
              ELSE HTTP_PREFIX \o <<":", "/", "/", "p", DigitChar(j), "/", DigitChar(k)>>]

\* elements the filter has to reject: a menu entry, an advertisement, a page
\* anchor, an overlong text
Rejects ==
    << [text |-> <<"M", "e", "n", "u">>, href |-> <<"/", "m">>],
       [text |-> Headline(<<"S", "p", "o", "n", "s", "o", "r", "e", "d", " ">>, MIN_TITLE_LEN + 5),
        href |-> <<"/", "s">>],
       [text |-> Headline(<<"#">>, MIN_TITLE_LEN), href |-> <<"#", "t", "o", "p">>],
       [text |-> Headline(<<"L">>, MAX_TITLE_LEN + 1), href |-> <<"/", "l">>] >>

NoElements == [sel \in 1..NUM_SELECTORS |-> <<>>]

\* requests.get raises
PageRaises == [raises |-> TRUE, status |-> 0, selected |-> NoElements]

\* the page is answered with another status than 200
NotFound == [raises |-> FALSE, status |-> 404, selected |-> [NoElements EXCEPT ![1] = <<Good(1, 1)>>]]

\* page j with n good headlines: two under 'article a[href]' among the rejects,
\* the others under 'h2 a[href]'
Listing(j, n) ==
    [raises   |-> FALSE,
     status   |-> 200,
     selected |-> [NoElements EXCEPT
                     ![1] = <<Rejects[1], Good(j, 1), Rejects[2], Rejects[3], Good(j, 2),
                              Rejects[4]>>,
                     ![5] = [k \in 1..(n - 2) |-> Good(j, k + 2)]]]

PageChoices(j) ==
    {PageRaises, Listing(j, 4)}
      \cup (IF j = 1 THEN {NotFound, Listing(j, MaxElements)} ELSE {})

\* one answer for each of the three pages
PageInputs ==
    {<<p1, p2, p3>> : p1 \in PageChoices(1), p2 \in PageChoices(2), p3 \in PageChoices(3)}

\* a reply of the model with this content
Response(content) == [kind |-> "response", content |-> content]

\* "Apple [ID:2]. AI [ID:99]."
SampleSummary ==
    <<"A", "p", "p", "l", "e", " ">> \o ID_OPEN \o <<"2", "]", ".", " ", "A", "I", " ">>
      \o ID_OPEN \o <<"9", "9", "]", ".">>

\* the replies that take each way out of the model call
ReplyChoices ==
    { [kind |-> "APIConnectionError", content |-> None],
      [kind |-> "APIError", content |-> None],
      [kind |-> "Exception", content |-> None],
      Response(None),
      Response(<<" ", "\n">>),
      Response(<<" ", "N", "o", " ", "n", "e", "w", "s", ".", "\n">>),
      Response(SampleSummary) }

\* the runs that reach every step of the script: feeds that give enough, feeds
\* that give three articles, feeds that all fail; pages that give four, pages
\* that all fail; every kind of reply
FewFeeds ==
    { [i \in 1..Len(feeds) |-> Entries(i, 3)],
      [i \in 1..Len(feeds) |-> IF i = 2 THEN Entries(i, 3) ELSE DocRaises],
      [i \in 1..Len(feeds) |-> DocRaises] }

FewPages ==
    { [j \in 1..Len(tech_sources) |-> IF j = 2 THEN Listing(j, 4) ELSE PageRaises],
      [j \in 1..Len(tech_sources) |-> PageRaises] }

CoverageInputs ==
    {[docs |-> d, pgs |-> p, rep |-> r] : d \in FewFeeds, p \in FewPages, r \in ReplyChoices}

\* every combination of feeds and pages, with the sample summary as the reply
PipelineInputs ==
    CoverageInputs
      \cup {[docs |-> d, pgs |-> p, rep |-> Response(SampleSummary)] :
               d \in FeedInputs, p \in PageInputs}

(***************************************************************************)
(* Summaries for the citation reconciliation                               *)
(***************************************************************************)

\* the pieces a sampled summary is made of: an opened marker, markers of known
\* and unknown ids, a marker with a leading zero, the end of a marker, text and
\* a line break
Pieces ==
    { ID_OPEN,
      ID_OPEN \o <<"1", "]">>,
      ID_OPEN \o <<"3", "]">>,
      ID_OPEN \o <<"0", "3", "]">>,
      ID_OPEN \o <<"7", "7", "]">>,
      <<"1", "]">>,
      <<"x">>,
      <<"\n">> }

\* the concatenations of n pieces
RECURSIVE Pieced(_)
Pieced(n) ==
    IF n = 0 THEN {<<>>}
    ELSE {p \o s : p \in Pieces, s \in Pieced(n - 1)}

Summaries == UNION {Pieced(n) : n \in 0..MaxPieces}

\* the sampled summaries against a collection of fifteen feed articles and
\* against one of three feed articles and four scraped ones
CiteInputs ==
    CoverageInputs
      \cup {[docs |-> d, pgs |-> p, rep |-> Response(s)] :
               d \in {[i \in 1..Len(feeds) |-> Entries(i, 3)],
                      [i \in 1..Len(feeds) |-> IF i = 2 THEN Entries(i, 3) ELSE DocRaises]},
               p \in {[j \in 1..Len(tech_sources) |->
                          IF j = 2 THEN Listing(j, 4) ELSE PageRaises]},
               s \in Summaries}

(***************************************************************************)
(* Pages for the headline filter                                           *)
(***************************************************************************)

\* how a candidate text may begin
Openings ==
    { <<>>,
      <<"A", "d", "v", "e", "r", "t", "i", "s", "e", "m", "e", "n", "t">>,
      <<"A", "D", "V", "E", "R", "T", "I", "S", "E", "M", "E", "N", "T", ":">>,
      <<"s", "p", "o", "n", "s", "o", "r", "e", "d">>,
      <<"S", "p", "o", "n", "s", "o", "r", "e", "d", " ">>,
      <<"A", "d", "v", "e", "r", "t">> }

\* the lengths around the two limits of the filter
EdgeLengths == {MIN_TITLE_LEN - 1, MIN_TITLE_LEN, MAX_TITLE_LEN, MAX_TITLE_LEN + 1}

\* the whitespace around a candidate text
Margins == {<<>>, <<" ", "\n">>}

Hrefs == {<<"/", "r">>, HTTP_PREFIX \o <<"s", ":", "/", "/", "h">>, <<"#">>}

\* the elements a page may hold: every opening, at every edge length, with and
\* without whitespace around it, under every kind of link
Candidates ==
    {[text |-> m \o Headline(o, n) \o m, href |-> h] :
        o \in Openings, n \in EdgeLengths, m \in Margins, h \in Hrefs}

\* the first page holds one candidate under '.title a[href]' and a good headline
\* under 'h3 a[href]'; the feeds and the other pages fail
ScrapeInputs ==
    CoverageInputs
      \cup {[docs |-> [i \in 1..Len(feeds) |-> DocRaises],
             pgs  |-> <<[raises   |-> FALSE,
                         status   |-> 200,
                         selected |-> [NoElements EXCEPT ![3] = <<c>>,
                                                         ![6] = <<Good(1, 1)>>]],
                        PageRaises, PageRaises>>,
             rep  |-> Response(SampleSummary)] : c \in Candidates}

(***************************************************************************)
(* The script                                                              *)
(***************************************************************************)

\* the state of the script when it starts on these inputs
Start(inp) ==
    /\ feedDocs = inp.docs
    /\ pages = inp.pgs
    /\ reply = inp.rep
    /\ pc = "start"
    /\ rss = <<>>
    /\ scraped = <<>>
    /\ merged = <<>>
    /\ by_source = <<>>
    /\ current_news = None
    /\ articles = <<>>
    /\ articles_by_id = <<>>
    /\ modelCalls = 0
    /\ summary = None
    /\ clean_summary = None
    /\ appendix = <<>>
    /\ digest = None
    /\ written = None
    /\ exitCode = <<>>
    /\ log = <<>>

Init == \E inp \in PipelineInputs : Start(inp)

Next ==
    \/ GetRssHeadlines
    \/ ScrapeFallback
    \/ SkipFallback
    \/ InsufficientNews
    \/ BuildPrompt
    \/ ModelConnectionError
    \/ ModelAPIError
    \/ ModelUnexpectedError
    \/ EmptySummary
    \/ Reconcile
    \/ MakeDirs
    \/ MakeDirsFails
    \/ WriteDigest
    \/ WriteFails
    \/ ExitDegraded
    \/ ExitOk

Spec == Init /\ [][Next]_vars

\* the script on the sampled summaries
InitCite == \E inp \in CiteInputs : Start(inp)

SpecCite == InitCite /\ [][Next]_vars

\* the script on the sampled pages
InitScrape == \E inp \in ScrapeInputs : Start(inp)

SpecScrape == InitScrape /\ [][Next]_vars

(***************************************************************************)
(* Properties                                                              *)
(***************************************************************************)

\* fetch_current_tech_news has returned
Fetched == pc \in {"llm", "main", "write", "check", "exited"}

\* generate_tech_news_digest has returned
Generated == pc \in {"main", "write", "check", "exited"}

\* generate_tech_news_digest has returned from the branch that handles a summary
Reconciled == Generated /\ summary # None /\ summary # <<>>

\* the events of a kind in what was printed, and the sources they name
Events(kind) == SelectSeq(log, LAMBDA e : e.ev = kind)

Named(kind) == [k \in 1..Len(Events(kind)) |-> Events(kind)[k].src]

\* the articles of a list that come from a source, without their ids
From(arts, source_name) ==
    LET own == SelectSeq(arts, LAMBDA a : a.source = source_name)
    IN  [k \in 1..Len(own) |->
            [title |-> own[k].title, url |-> own[k].url, published |-> own[k].published]]

RECURSIVE RenderedCount(_, _)
RenderedCount(groups, g) ==
    IF g > Len(groups) THEN 0 ELSE Len(groups[g].arts) + RenderedCount(groups, g + 1)

\* the ids the summary cites, and those of them the collection holds
Cited == {extract_referenced_ids(summary)[k] : k \in 1..Len(extract_referenced_ids(summary))}

ValidCited == Cited \cap DOMAIN articles_by_id

\* the text at the start of the final digest
Body == IF clean_summary = None THEN summary ELSE clean_summary

\* the model call failed in one of the three classes
ModelFailed ==
    /\ Generated
    /\ modelCalls = 1
    /\ reply.kind \in {"APIConnectionError", "APIError", "Exception"} \/ reply.content = None

\* C1: whenever five or more articles are merged, the list fetch_current_tech_news
\* returns carries the ids 0..N-1 in append order, the feed articles first and the
\* scraped ones after them.
C1_DenseIds ==
    (Fetched /\ Len(merged) >= 5) =>
        /\ articles = rss \o scraped
        /\ \A k \in 1..Len(articles) : articles[k].id = k - 1

\* C2: every article rendered in the prompt is the article articles_by_id holds
\* under its id, and articles_by_id holds as many articles as the prompt renders.
C2_ViewsConsistent ==
    (Fetched /\ articles # <<>>) =>
        /\ \A g \in 1..Len(by_source) : \A k \in 1..Len(by_source[g].arts) :
              LET a == by_source[g].arts[k]
              IN  a.id \in DOMAIN articles_by_id /\ articles_by_id[a.id] = a
        /\ Cardinality(DOMAIN articles_by_id) = RenderedCount(by_source, 1)

\* C3: the digest ends in the sources section, with one entry for each cited id
\* of the collection, when the summary cites an id of the collection, and in the
\* note, without a sources header, when it cites none.
C3_AppendixOrNote ==
    Reconciled =>
        IF ValidCited # {}
        THEN /\ Contains(digest, SOURCES_HEADER)
             /\ {appendix[k] : k \in 1..Len(appendix)} = ValidCited
             /\ Len(appendix) = Cardinality(ValidCited)
        ELSE /\ EndsWith(digest, NO_REFERENCES_NOTE)
             /\ ~Contains(digest, SOURCES_HEADER)

\* C4: the text at the start of the final digest holds no marker [ID:<digits>].
C4_NoMarkerInBody ==
    Reconciled =>
        /\ StartsWith(digest, Body)
        /\ \A i \in 1..Len(Body) : MarkerLenAt(Body, i) = 0

\* C5: the entries of the sources section are ids of the collection, in strictly
\* ascending order, one for each cited id of the collection and none for a cited
\* id the collection lacks; such an id raises no error.
C5_AppendixSound ==
    Reconciled =>
        /\ \A k \in 1..Len(appendix) : appendix[k] \in DOMAIN articles_by_id
        /\ \A k \in 1..(Len(appendix) - 1) : appendix[k] < appendix[k + 1]
        /\ \A i \in Cited : (\E k \in 1..Len(appendix) : appendix[k] = i)
                              <=> i \in DOMAIN articles_by_id
        /\ digest \notin {CONNECTION_ERROR_MSG, API_ERROR_MSG, UNEXPECTED_ERROR_MSG}
        /\ Cited # {} =>
              digest = Body \o SOURCES_HEADER \o SourceEntries(appendix, articles_by_id, 1)

\* C5 witness: a summary that cites an id of the collection twice and an id the
\* collection lacks; the sources section lists the one id.
C5_Witness ==
    /\ Reconciled
    /\ Len(extract_referenced_ids(summary)) = 3
    /\ Cited = {1, 77}
    /\ appendix = <<1>>

\* C6: with fewer than five articles from feeds and fallback together the digest
\* is the fixed message, the model is never called, and the exit status is 1.
C6_InsufficientShortCircuits ==
    (pc \notin {"start", "rss_done"} /\ Len(rss) + Len(scraped) < 5) =>
        /\ modelCalls = 0
        /\ pc # "fetched" => digest = FETCH_FAILED_MSG
        /\ written # None => written = OutputContent(FETCH_FAILED_MSG)
        /\ pc = "exited" => exitCode = <<1>>

\* C6 witness: four scraped articles and none from the feeds; the message is
\* written and the script has exited.
C6_Witness ==
    /\ pc = "exited"
    /\ Len(rss) + Len(scraped) = 4
    /\ written # None

\* C7, as claimed: after a failure of the model call the script has written the
\* output document whenever it exits, and exits with a status other than 0.
C7_AlwaysWritesDocument ==
    (ModelFailed /\ pc = "exited") => (written # None /\ exitCode # <<0>>)

\* C7, amended: a failure of the model call leaves generate_tech_news_digest with
\* the message of its class, the three messages differ, the exit status is 1, and
\* the document is written unless os.makedirs or the write itself fails.
C7_ModelFailureDegrades ==
    /\ CONNECTION_ERROR_MSG # API_ERROR_MSG
    /\ CONNECTION_ERROR_MSG # UNEXPECTED_ERROR_MSG
    /\ API_ERROR_MSG # UNEXPECTED_ERROR_MSG
    /\ ModelFailed =>
          /\ reply.kind = "APIConnectionError" => digest = CONNECTION_ERROR_MSG
          /\ reply.kind = "APIError" => digest = API_ERROR_MSG
          /\ reply.kind \in {"Exception", "response"} => digest = UNEXPECTED_ERROR_MSG
          /\ pc = "exited" => exitCode = <<1>>
          /\ written # None => written = OutputContent(digest)
          /\ (pc = "exited" /\ Events("makedirs_error") = <<>> /\ Events("write_error") = <<>>)
                => written # None

\* C7 witness: the call raised an APIError, the document is written and the
\* script has exited with status 1.
C7_Witness ==
    /\ ModelFailed
    /\ reply.kind = "APIError"
    /\ pc = "exited"
    /\ written = OutputContent(API_ERROR_MSG)
    /\ exitCode = <<1>>

\* C8: every title the fallback returns is trimmed, is 20 to 200 characters long
\* and does not begin, in lower case, with "advertisement" or "sponsored".
C8_AcceptedTitles ==
    \A k \in 1..Len(scraped) :
        LET t == scraped[k].title
        IN  /\ 20 <= Len(t) /\ Len(t) <= 200
            /\ t[1] \notin Whitespace /\ t[Len(t)] \notin Whitespace
            /\ ~StartsWith(Lower(t), AD_PREFIX)
            /\ ~StartsWith(Lower(t), SPONSORED_PREFIX)

\* C8 witness: a text of more than 200 characters whose trimmed length is 200 was
\* accepted, from a page that also held a rejected kind of candidate.
C8_Witness ==
    /\ pc = "fetched"
    /\ Len(scraped) = 2
    /\ Len(scraped[1].title) = 200
    /\ Len(pages[1].selected[3][1].text) > 200

\* the feeds that ended in the except clause, and the pages that did
FailedFeeds == {i \in 1..Len(feeds) : \E k \in 1..Len(log) :
                   log[k] = [ev |-> "fetch_error", src |-> feeds[i]]}

FailedPages == {j \in 1..Len(tech_sources) : \E k \in 1..Len(log) :
                   log[k] = [ev |-> "scrape_error", src |-> tech_sources[j].name]}

\* C9, as claimed: a source that failed is skipped, it has no article in the
\* result.
C9_FailedSourceSkipped ==
    /\ pc # "start" => \A i \in FailedFeeds : From(rss, feeds[i]) = <<>>
    /\ \A j \in FailedPages : From(scraped, tech_sources[j].name) = <<>>

\* C9, amended: every source of the catalog is attempted in order, whatever
\* failed before it; a source fails exactly when its fetch or one of its entries
\* raises, and the failure is printed; each source yields the articles it yields
\* when fetched alone (a feed those of the entries before the one that raised, a
\* page that raised none).
C9_FailureIsolated ==
    /\ pc # "start" =>
          /\ Named("fetching") = feeds
          /\ \A i \in 1..Len(feeds) :
                /\ i \in FailedFeeds <=>
                      (feedDocs[i].raises
                         \/ \E j \in 1..Len(feedDocs[i].entries) :
                               j <= 5 /\ feedDocs[i].entries[j].title = None)
                /\ From(rss, feeds[i]) = From(FeedStep(<<>>, feeds[i], feedDocs[i]).arts, feeds[i])
    /\ (pc \notin {"start", "rss_done"} /\ Events("trying_scraping") # <<>>) =>
          /\ Named("scraping") = [j \in 1..Len(tech_sources) |-> tech_sources[j].name]
          /\ \A j \in 1..Len(tech_sources) :
                /\ j \in FailedPages <=> pages[j].raises
                /\ From(scraped, tech_sources[j].name) =
                      IF pages[j].raises THEN <<>>
                      ELSE From(PageStep(<<>>, tech_sources[j], pages[j]), tech_sources[j].name)

\* C9 witness: the second feed raised at its third entry and keeps two articles,
\* the third feed gave its three; the first page raised and the second gave four.
C9_Witness ==
    /\ pc = "fetched"
    /\ 2 \in FailedFeeds
    /\ Len(From(rss, feeds[2])) = 2
    /\ Len(From(rss, feeds[3])) = 3
    /\ 1 \in FailedPages
    /\ Len(From(scraped, tech_sources[2].name)) = 4

\* C10: the fallback is run exactly when the feeds gave fewer than ten articles;
\* it runs after all feeds were fetched and before the merged list is judged, and
\* its articles follow the feed articles.
C10_FallbackIffFewFeeds ==
    /\ pc \in {"start", "rss_done"} =>
          Events("trying_scraping") = <<>> /\ Events("scraping") = <<>> /\ scraped = <<>>
    /\ pc \notin {"start", "rss_done"} =>
          /\ Events("trying_scraping") # <<>> <=> Len(rss) < 10
          /\ Len(rss) >= 10 => (Events("scraping") = <<>> /\ scraped = <<>>)
          /\ Len(rss) < 10 => Len(Events("scraping")) = 3
          /\ merged = rss \o scraped
          /\ \A k \in 1..Len(log) : \A m \in 1..Len(log) :
                (log[k].ev = "fetching" /\ log[m].ev \in {"trying_scraping", "scraping"})
                   => k < m
    /\ Fetched => articles = (IF Len(rss \o scraped) < 5 THEN <<>> ELSE rss \o scraped)

\* C10 witness: three feed articles, so the fallback ran, and its four articles
\* follow them in the list handed on.
C10_Witness ==
    /\ pc = "llm"
    /\ Len(rss) = 3
    /\ Len(scraped) = 4
    /\ articles = rss \o scraped

\* C10 second case reached: ten or more feed articles and no fallback.
C10_WitnessSkipped == Fetched /\ Len(rss) >= 10 /\ scraped = <<>>

====
